---- MODULE Spec2Model ----
(***************************************************************************)
(* A model of hermes' DynHandleAllocator and DynHandle                     *)
(* (include/hermes/DynHandle/DynHandle.h, DynHandle-Inline.h and           *)
(* lib/DynHandle/DynHandle.cpp).                                           *)
(*                                                                         *)
(* Memory is modelled by address.  A chunk is a block of kChunkByteSize    *)
(* bytes at an address that is a multiple of kChunkAlignment; its header   *)
(* (next, freeList, allocatedEnd) is followed by kSlotsPerChunk slots of   *)
(* one PinnedHermesValue each.  Pointers are integers and NULL is 0.       *)
(* The chunk is scaled down from the source's 1 KiB (125 slots) to a       *)
(* header plus SlotsBound slots; every size is still derived from it the   *)
(* way the source derives it.                                              *)
(*                                                                         *)
(* The allocator is used by one thread.  Every operation is one step; a    *)
(* collection stops the mutator, calls markRoots and lets it resume.       *)
(* The allocator's destructor is a loop; each of its iterations is a step. *)
(* Spec is the allocator in use; SpecLifetime adds its destruction.        *)
(***************************************************************************)
EXTENDS Integers, Sequences, FiniteSets

\* ------------------------------------------------------------- bounds

\* Number of DynHandle objects of the mutator.  An object that does not
\* exist and one that is invalid are not told apart: both have slot_ = NULL,
\* and constructing into, assigning to or destroying either does the same.
MaxHandles == 3

\* Number of slots the scaled-down chunk is sized for.
SlotsBound == 2


\* ------------------------------------------------------ layout and sizes

NULL == 0

\* sizeof(Slot): one 64-bit PinnedHermesValue.
SizeofSlot == 8

\* sizeof(Chunk): two pointers and a uint32_t, padded to 8-byte alignment.
SizeofChunk == 24

kChunkAlignment == SizeofChunk + SlotsBound * SizeofSlot

kChunkByteSize == kChunkAlignment

\* Mutant of kSlotsPerChunk: the header is not taken off the byte size.
kSlotsPerChunkWithoutHeader == kChunkByteSize \div SizeofSlot

kSlotsPerChunk == (kChunkByteSize - SizeofChunk) \div SizeofSlot

\* The platform has as many aligned blocks as the handles can ever fill.
PoolSize == (MaxHandles + kSlotsPerChunk - 1) \div kSlotsPerChunk

\* The addresses oscompat::allocate_aligned can return: multiples of the
\* alignment.
ChunkAddrs == {k * kChunkAlignment : k \in 1..PoolSize}

getSlots(chunk) == chunk + SizeofChunk

SlotAddr(chunk, i) == getSlots(chunk) + i * SizeofSlot

SlotAddrsOf(chunk) == {SlotAddr(chunk, i) : i \in 0..(kSlotsPerChunk - 1)}

contains(chunk, slot) ==
    /\ slot >= getSlots(chunk)
    /\ slot < getSlots(chunk) + kSlotsPerChunk * SizeofSlot

chunkForSlot(slot) == slot - (slot % kChunkByteSize)

SlotIndex(slot) == (slot - getSlots(chunkForSlot(slot))) \div SizeofSlot

\* ------------------------------------------------------------ HermesValue

\* A HermesValue is a tagged cell.  The mutator stores booleans, as the
\* unit test does (HermesValue::encodeBoolValue(i & 1)); a boolean is boxed
\* under the bool tag, a native pointer under the native-pointer tag.
Values == BOOLEAN

encode(value) == [tag |-> "bool", payload |-> IF value THEN 1 ELSE 0]

decode(hv) == hv.payload = 1

encodeNativePointer(p) == [tag |-> "ptr", payload |-> p]

getNativePointer(hv) == hv.payload

isNativePointer(hv) == hv.tag = "ptr"

\* A freshly obtained block is not initialized: each of its slots holds
\* some bit pattern, which may look like a value or like a native pointer.
GarbageCells == {encode(TRUE), encodeNativePointer(NULL)}

Handles == 1..MaxHandles

\* -------------------------------------------------------------- state

VARIABLES
    chunks_,       \* DynHandleAllocator::chunks_: head of the chunk list
    next,          \* Chunk::next, per chunk obtained from the platform
    freeList,      \* Chunk::freeList, per chunk
    allocatedEnd,  \* Chunk::allocatedEnd, per chunk
    phv,           \* Slot::phv, per slot address of every chunk
    slot_,         \* DynHandle::slot_, per DynHandle object
    aborted,       \* hermes_fatal has been called
    gcPhase,       \* "mutator", or the collection's progress: "marked" after
                   \* one markRoots call, "remarked" after a second
    accepted,      \* what the acceptor was offered by the last markRoots
    lifetime,      \* of the allocator: "alive", "destroying" while its
                   \* destructor runs, "destroyed" after it has returned
    released,      \* the blocks passed to oscompat::free_aligned, in order
    peak           \* history: the largest number of DynHandles that have
                   \* been valid at once

allocVars == <<chunks_, next, freeList, allocatedEnd, phv>>

gcVars == <<gcPhase, accepted>>

lifeVars == <<lifetime, released>>

vars == <<chunks_, next, freeList, allocatedEnd, phv, slot_, aborted,
          gcPhase, accepted, lifetime, released, peak>>

Init ==
    /\ chunks_ = NULL
    /\ next = <<>>
    /\ freeList = <<>>
    /\ allocatedEnd = <<>>
    /\ phv = <<>>
    /\ slot_ = [h \in Handles |-> NULL]
    /\ aborted = FALSE
    /\ gcPhase = "mutator"
    /\ accepted = <<>>
    /\ lifetime = "alive"
    /\ released = <<>>
    /\ peak = 0

\* ------------------------------------------------------------ helpers

\* The function f with the pairs of g added (g's keys are new).
Extend(f, g) ==
    [x \in (DOMAIN f) \cup (DOMAIN g) |-> IF x \in DOMAIN g THEN g[x] ELSE f[x]]

\* The chunks obtained from the platform and not released.
Chunks == DOMAIN next

\* The function f without the keys in `gone`.
Without(f, gone) == [x \in (DOMAIN f) \ gone |-> f[x]]

\* ------------------------------------------------------------- Chunk

\* Mutant of tryAllocate: the free list is not consulted, only untouched
\* slots are handed out.
tryAllocateIgnoresFreeList(chunk, fl, ae) ==
    IF ae < kSlotsPerChunk
    THEN [result |-> getSlots(chunk) + ae * SizeofSlot,
          freeList |-> fl,
          allocatedEnd |-> ae + 1]
    ELSE [result |-> NULL, freeList |-> fl, allocatedEnd |-> ae]

\* Mutant of tryAllocate: the free list is not advanced past the slot
\* handed out.
tryAllocateNoPop(chunk, fl, ae) ==
    IF fl # NULL
    THEN [result |-> fl, freeList |-> fl, allocatedEnd |-> ae]
    ELSE IF ae < kSlotsPerChunk
    THEN [result |-> getSlots(chunk) + ae * SizeofSlot,
          freeList |-> fl,
          allocatedEnd |-> ae + 1]
    ELSE [result |-> NULL, freeList |-> fl, allocatedEnd |-> ae]

\* Mutant of tryAllocate: the two branches are in the wrong order, an
\* untouched slot is preferred to a freed one.
tryAllocateBumpFirst(chunk, fl, ae) ==
    IF ae < kSlotsPerChunk
    THEN [result |-> getSlots(chunk) + ae * SizeofSlot,
          freeList |-> fl,
          allocatedEnd |-> ae + 1]
    ELSE IF fl # NULL
    THEN [result |-> fl,
          freeList |-> getNativePointer(phv[fl]),
          allocatedEnd |-> ae]
    ELSE [result |-> NULL, freeList |-> fl, allocatedEnd |-> ae]

\* Mutant of tryAllocate: a slot taken from the free list lowers the
\* high-water mark.
tryAllocatePopRewinds(chunk, fl, ae) ==
    IF fl # NULL
    THEN [result |-> fl,
          freeList |-> getNativePointer(phv[fl]),
          allocatedEnd |-> ae - 1]
    ELSE IF ae < kSlotsPerChunk
    THEN [result |-> getSlots(chunk) + ae * SizeofSlot,
          freeList |-> fl,
          allocatedEnd |-> ae + 1]
    ELSE [result |-> NULL, freeList |-> fl, allocatedEnd |-> ae]

\* Chunk::tryAllocate on chunk `chunk`, whose header holds `fl` and `ae`:
\* the slot returned (NULL if the chunk is full) and the header afterwards.
\* The PHV of the returned slot is not written.
tryAllocate(chunk, fl, ae) ==
    IF fl # NULL
    THEN [result |-> fl,
          freeList |-> getNativePointer(phv[fl]),
          allocatedEnd |-> ae]
    ELSE IF ae < kSlotsPerChunk
    THEN [result |-> getSlots(chunk) + ae * SizeofSlot,
          freeList |-> fl,
          allocatedEnd |-> ae + 1]
    ELSE [result |-> NULL, freeList |-> fl, allocatedEnd |-> ae]

\* Mutant of free: the slot's PHV does not record the old head of the free
\* list.
freeForgetsList(chunk, slot) ==
    [phv |-> [phv EXCEPT ![slot] = encodeNativePointer(NULL)],
     freeList |-> [freeList EXCEPT ![chunk] = slot]]

\* Chunk::free(slot) on chunk `chunk`: the slot's PHV becomes the link to the
\* old head of the free list and the slot becomes the head.
free(chunk, slot) ==
    [phv |-> [phv EXCEPT ![slot] = encodeNativePointer(freeList[chunk])],
     freeList |-> [freeList EXCEPT ![chunk] = slot]]

\* -------------------------------------------------- DynHandleAllocator

\* The loop of allocateSlotSlowPath from `cursor` on, `prev` being the chunk
\* before it: the first chunk whose tryAllocate yields a slot, with the
\* chunk before it, or found = FALSE when the list is exhausted.
RECURSIVE SlowPathScan(_, _)
SlowPathScan(cursor, prev) ==
    IF cursor = NULL
    THEN [found |-> FALSE, cursor |-> NULL, prev |-> prev,
          res |-> [result |-> NULL, freeList |-> NULL, allocatedEnd |-> 0]]
    ELSE LET r == tryAllocate(cursor, freeList[cursor], allocatedEnd[cursor])
         IN IF r.result # NULL
            THEN [found |-> TRUE, cursor |-> cursor, prev |-> prev, res |-> r]
            ELSE SlowPathScan(next[cursor], cursor)

\* Mutant of Splice: the chunk before `cursor` is not linked to the chunk
\* after it.
SpliceCutsTheRest(cursor, prev) ==
    IF prev # NULL
    THEN [next |-> [next EXCEPT ![prev] = NULL, ![cursor] = chunks_],
          chunks_ |-> cursor]
    ELSE [next |-> next, chunks_ |-> chunks_]

\* Mutant of Splice: the chunk that yielded the slot stays where it is.
SpliceLeavesInPlace(cursor, prev) ==
    [next |-> next, chunks_ |-> chunks_]

\* The chunk list after the splice of allocateSlotSlowPath: `cursor` moves to
\* the front unless it is there already (prev = NULL).
Splice(cursor, prev) ==
    IF prev # NULL
    THEN [next |-> [next EXCEPT ![prev] = next[cursor], ![cursor] = chunks_],
          chunks_ |-> cursor]
    ELSE [next |-> next, chunks_ |-> chunks_]

\* Mutant of allocateSlotSlowPath: the new chunk is not linked to the old
\* head of the list.
allocateSlotSlowPathUnlinked(allocation, garbage) ==
    LET scan == SlowPathScan(chunks_, NULL) IN
    IF scan.found
    THEN LET sp == Splice(scan.cursor, scan.prev) IN
         [chunks_ |-> sp.chunks_,
          next |-> sp.next,
          freeList |-> [freeList EXCEPT ![scan.cursor] = scan.res.freeList],
          allocatedEnd |->
              [allocatedEnd EXCEPT ![scan.cursor] = scan.res.allocatedEnd],
          phv |-> phv,
          result |-> scan.res.result,
          fatal |-> FALSE]
    ELSE IF allocation = NULL
    THEN [chunks_ |-> chunks_, next |-> next, freeList |-> freeList,
          allocatedEnd |-> allocatedEnd, phv |-> phv,
          result |-> NULL, fatal |-> TRUE]
    ELSE LET res == tryAllocate(allocation, NULL, 0) IN
         [chunks_ |-> allocation,
          next |-> Extend(next, [c \in {allocation} |-> NULL]),
          freeList |-> Extend(freeList, [c \in {allocation} |-> res.freeList]),
          allocatedEnd |->
              Extend(allocatedEnd, [c \in {allocation} |-> res.allocatedEnd]),
          phv |-> Extend(phv, [s \in SlotAddrsOf(allocation) |->
                                   garbage[SlotIndex(s)]]),
          result |-> res.result,
          fatal |-> FALSE]

\* Mutant of allocateSlotSlowPath: the new chunk's allocatedEnd starts at
\* kSlotsPerChunk.
allocateSlotSlowPathFreshChunkFull(allocation, garbage) ==
    LET scan == SlowPathScan(chunks_, NULL) IN
    IF scan.found
    THEN LET sp == Splice(scan.cursor, scan.prev) IN
         [chunks_ |-> sp.chunks_,
          next |-> sp.next,
          freeList |-> [freeList EXCEPT ![scan.cursor] = scan.res.freeList],
          allocatedEnd |->
              [allocatedEnd EXCEPT ![scan.cursor] = scan.res.allocatedEnd],
          phv |-> phv,
          result |-> scan.res.result,
          fatal |-> FALSE]
    ELSE IF allocation = NULL
    THEN [chunks_ |-> chunks_, next |-> next, freeList |-> freeList,
          allocatedEnd |-> allocatedEnd, phv |-> phv,
          result |-> NULL, fatal |-> TRUE]
    ELSE LET res == tryAllocate(allocation, NULL, kSlotsPerChunk) IN
         [chunks_ |-> allocation,
          next |-> Extend(next, [c \in {allocation} |-> chunks_]),
          freeList |-> Extend(freeList, [c \in {allocation} |-> res.freeList]),
          allocatedEnd |->
              Extend(allocatedEnd, [c \in {allocation} |-> res.allocatedEnd]),
          phv |-> Extend(phv, [s \in SlotAddrsOf(allocation) |->
                                   garbage[SlotIndex(s)]]),
          result |-> res.result,
          fatal |-> FALSE]

\* Mutant of allocateSlotSlowPath: the block is asked for before the list
\* is scanned, and the lack of one is fatal at once.
allocateSlotSlowPathAllocatesFirst(allocation, garbage) ==
    LET scan == SlowPathScan(chunks_, NULL) IN
    IF allocation = NULL
    THEN [chunks_ |-> chunks_, next |-> next, freeList |-> freeList,
          allocatedEnd |-> allocatedEnd, phv |-> phv,
          result |-> NULL, fatal |-> TRUE]
    ELSE IF scan.found
    THEN LET sp == Splice(scan.cursor, scan.prev) IN
         [chunks_ |-> sp.chunks_,
          next |-> sp.next,
          freeList |-> [freeList EXCEPT ![scan.cursor] = scan.res.freeList],
          allocatedEnd |->
              [allocatedEnd EXCEPT ![scan.cursor] = scan.res.allocatedEnd],
          phv |-> phv,
          result |-> scan.res.result,
          fatal |-> FALSE]
    ELSE LET res == tryAllocate(allocation, NULL, 0) IN
         [chunks_ |-> allocation,
          next |-> Extend(next, [c \in {allocation} |-> chunks_]),
          freeList |-> Extend(freeList, [c \in {allocation} |-> res.freeList]),
          allocatedEnd |->
              Extend(allocatedEnd, [c \in {allocation} |-> res.allocatedEnd]),
          phv |-> Extend(phv, [s \in SlotAddrsOf(allocation) |->
                                   garbage[SlotIndex(s)]]),
          result |-> res.result,
          fatal |-> FALSE]

\* allocateSlotSlowPath.  `allocation` is what oscompat::allocate_aligned
\* returns if it is called (NULL: it failed) and `garbage` the contents of
\* the block it returns.  The result is the allocator afterwards, the slot
\* returned, and whether hermes_fatal was called.
allocateSlotSlowPath(allocation, garbage) ==
    LET scan == SlowPathScan(chunks_, NULL) IN
    IF scan.found
    THEN LET sp == Splice(scan.cursor, scan.prev) IN
         [chunks_ |-> sp.chunks_,
          next |-> sp.next,
          freeList |-> [freeList EXCEPT ![scan.cursor] = scan.res.freeList],
          allocatedEnd |->
              [allocatedEnd EXCEPT ![scan.cursor] = scan.res.allocatedEnd],
          phv |-> phv,
          result |-> scan.res.result,
          fatal |-> FALSE]
    ELSE IF allocation = NULL
    THEN [chunks_ |-> chunks_, next |-> next, freeList |-> freeList,
          allocatedEnd |-> allocatedEnd, phv |-> phv,
          result |-> NULL, fatal |-> TRUE]
    ELSE LET res == tryAllocate(allocation, NULL, 0) IN
         [chunks_ |-> allocation,
          next |-> Extend(next, [c \in {allocation} |-> chunks_]),
          freeList |-> Extend(freeList, [c \in {allocation} |-> res.freeList]),
          allocatedEnd |->
              Extend(allocatedEnd, [c \in {allocation} |-> res.allocatedEnd]),
          phv |-> Extend(phv, [s \in SlotAddrsOf(allocation) |->
                                   garbage[SlotIndex(s)]]),
          result |-> res.result,
          fatal |-> FALSE]

\* Mutant of allocateSlot: the fast path tries the chunk after the head
\* when there is one.
allocateSlotTriesSecond(allocation, garbage) ==
    LET first == IF chunks_ # NULL /\ next[chunks_] # NULL
                 THEN next[chunks_]
                 ELSE chunks_
        r == IF first # NULL
             THEN tryAllocate(first, freeList[first], allocatedEnd[first])
             ELSE [result |-> NULL, freeList |-> NULL, allocatedEnd |-> 0]
    IN IF r.result # NULL
       THEN [chunks_ |-> chunks_,
             next |-> next,
             freeList |-> [freeList EXCEPT ![first] = r.freeList],
             allocatedEnd |-> [allocatedEnd EXCEPT ![first] = r.allocatedEnd],
             phv |-> phv,
             result |-> r.result,
             fatal |-> FALSE]
       ELSE allocateSlotSlowPath(allocation, garbage)

\* allocateSlot: the head chunk's tryAllocate, else the slow path.
allocateSlot(allocation, garbage) ==
    LET r == IF chunks_ # NULL
             THEN tryAllocate(chunks_, freeList[chunks_], allocatedEnd[chunks_])
             ELSE [result |-> NULL, freeList |-> NULL, allocatedEnd |-> 0]
    IN IF r.result # NULL
       THEN [chunks_ |-> chunks_,
             next |-> next,
             freeList |-> [freeList EXCEPT ![chunks_] = r.freeList],
             allocatedEnd |-> [allocatedEnd EXCEPT ![chunks_] = r.allocatedEnd],
             phv |-> phv,
             result |-> r.result,
             fatal |-> FALSE]
       ELSE allocateSlotSlowPath(allocation, garbage)

\* Whether allocateSlot reaches the call of oscompat::allocate_aligned.
NeedsNewChunk ==
    /\ \/ chunks_ = NULL
       \/ tryAllocate(chunks_, freeList[chunks_], allocatedEnd[chunks_]).result
              = NULL
    /\ ~SlowPathScan(chunks_, NULL).found

\* What the platform may answer: failure, or an aligned block not in use,
\* holding anything.
PlatformAnswers == {NULL} \cup (ChunkAddrs \ Chunks)

GarbageFills == [0..(kSlotsPerChunk - 1) -> GarbageCells]

NoGarbage == [i \in 0..(kSlotsPerChunk - 1) |-> encodeNativePointer(NULL)]

\* ---------------------------------------------------------- DynHandle

valid(h) == slot_[h] # NULL

get(h) == decode(phv[slot_[h]])

getHermesValue(h) == phv[slot_[h]]

\* A step that writes slot_ is observed: peak is raised to the number of
\* valid DynHandles after it if that is higher.
PeakObserved ==
    \A now \in {Cardinality({h \in DOMAIN slot_' : slot_'[h] # NULL})} :
        peak' = IF now > peak THEN now ELSE peak

\* The mutator runs only while no collection is under way, the process has
\* not been aborted and the allocator has not been destroyed.
MutatorRuns == ~aborted /\ gcPhase = "mutator" /\ lifetime = "alive"

\* Mutant of AllocateWith: the slot's PHV is not initialized with the value.
AllocateWithNoInit(h, value, allocation, garbage) ==
    LET a == allocateSlot(allocation, garbage) IN
    IF a.fatal
    THEN /\ aborted' = TRUE
         /\ UNCHANGED <<allocVars, slot_, gcVars, lifeVars, peak>>
    ELSE /\ chunks_' = a.chunks_
         /\ next' = a.next
         /\ freeList' = a.freeList
         /\ allocatedEnd' = a.allocatedEnd
         /\ phv' = a.phv
         /\ slot_' = [slot_ EXCEPT ![h] = a.result]
         /\ UNCHANGED <<aborted, gcVars, lifeVars>>
         /\ PeakObserved

\* allocator.allocate(value), the returned DynHandle constructed as `h`.
AllocateWith(h, value, allocation, garbage) ==
    LET a == allocateSlot(allocation, garbage) IN
    IF a.fatal
    THEN /\ aborted' = TRUE
         /\ UNCHANGED <<allocVars, slot_, gcVars, lifeVars, peak>>
    ELSE /\ chunks_' = a.chunks_
         /\ next' = a.next
         /\ freeList' = a.freeList
         /\ allocatedEnd' = a.allocatedEnd
         /\ phv' = [a.phv EXCEPT ![a.result] = encode(value)]
         /\ slot_' = [slot_ EXCEPT ![h] = a.result]
         /\ UNCHANGED <<aborted, gcVars, lifeVars>>
         /\ PeakObserved

allocate(h, value) ==
    /\ MutatorRuns
    /\ ~valid(h)
    /\ IF NeedsNewChunk
       THEN \E allocation \in PlatformAnswers, garbage \in GarbageFills :
                AllocateWith(h, value, allocation, garbage)
       ELSE AllocateWith(h, value, NULL, NoGarbage)

\* Mutant of MoveConstruct: rhs.slot_ is not reset.
MoveConstructKeepsRhs(h, rhs) ==
    /\ MutatorRuns
    /\ h # rhs
    /\ ~valid(h)
    /\ slot_' = [slot_ EXCEPT ![h] = slot_[rhs]]
    /\ UNCHANGED <<allocVars, aborted, gcVars, lifeVars>>
    /\ PeakObserved

\* DynHandle(DynHandle &&rhs): a new DynHandle `h` takes rhs's slot and
\* rhs is left invalid.
MoveConstruct(h, rhs) ==
    /\ MutatorRuns
    /\ h # rhs
    /\ ~valid(h)
    /\ slot_' = [slot_ EXCEPT ![h] = slot_[rhs], ![rhs] = NULL]
    /\ UNCHANGED <<allocVars, aborted, gcVars, lifeVars>>
    /\ PeakObserved

\* Mutant of freeThis: slot_ is reset but the slot is not freed.
freeThisLeaksSlot(h) ==
    [phv |-> phv, freeList |-> freeList, slot_ |-> NULL]

\* Mutant of freeThis: slot_ is not reset after the slot is freed.
freeThisKeepsSlot(h) ==
    IF valid(h)
    THEN LET f == free(chunkForSlot(slot_[h]), slot_[h]) IN
         [phv |-> f.phv, freeList |-> f.freeList, slot_ |-> slot_[h]]
    ELSE [phv |-> phv, freeList |-> freeList, slot_ |-> slot_[h]]

\* Mutant of freeThis: the slot is pushed onto the free list of the head
\* chunk instead of the chunk it lies in.
freeThisOnHeadChunk(h) ==
    IF valid(h)
    THEN LET f == free(chunks_, slot_[h]) IN
         [phv |-> f.phv, freeList |-> f.freeList, slot_ |-> NULL]
    ELSE [phv |-> phv, freeList |-> freeList, slot_ |-> slot_[h]]

\* freeThis(): the allocator memory and the handle's slot_ afterwards.
freeThis(h) ==
    IF valid(h)
    THEN LET f == free(chunkForSlot(slot_[h]), slot_[h]) IN
         [phv |-> f.phv, freeList |-> f.freeList, slot_ |-> NULL]
    ELSE [phv |-> phv, freeList |-> freeList, slot_ |-> slot_[h]]

\* Mutant of MoveAssign: the slot is freed but slot_ is not reset before
\* the swap.
MoveAssignKeepsFreedSlot(h, rhs) ==
    /\ MutatorRuns
    /\ LET f == freeThis(h)
       IN /\ phv' = f.phv
          /\ freeList' = f.freeList
          /\ slot_' = [slot_ EXCEPT ![h] = slot_[rhs], ![rhs] = slot_[h]]
    /\ UNCHANGED <<chunks_, next, allocatedEnd, aborted, gcVars, lifeVars>>
    /\ PeakObserved

\* Mutant of MoveAssign: freeThis() is not called before the swap.
MoveAssignNoFree(h, rhs) ==
    /\ MutatorRuns
    /\ slot_' = [slot_ EXCEPT ![h] = slot_[rhs], ![rhs] = slot_[h]]
    /\ UNCHANGED <<allocVars, aborted, gcVars, lifeVars>>
    /\ PeakObserved

\* operator=(DynHandle &&rhs): freeThis(), then swap the two slot_ fields.
MoveAssign(h, rhs) ==
    /\ MutatorRuns
    /\ LET f == freeThis(h)
           freed == [slot_ EXCEPT ![h] = f.slot_]
       IN /\ phv' = f.phv
          /\ freeList' = f.freeList
          /\ slot_' = [freed EXCEPT ![h] = freed[rhs], ![rhs] = freed[h]]
    /\ UNCHANGED <<chunks_, next, allocatedEnd, aborted, gcVars, lifeVars>>
    /\ PeakObserved

\* Mutant of Drop: the chunk of the dropped slot, when it is the head of
\* the chunk list, is taken off the list.
DropUnlinksChunk(h) ==
    /\ MutatorRuns
    /\ LET f == freeThis(h)
       IN /\ phv' = f.phv
          /\ freeList' = f.freeList
          /\ slot_' = [slot_ EXCEPT ![h] = f.slot_]
          /\ chunks_' = IF valid(h) /\ chunkForSlot(slot_[h]) = chunks_
                        THEN next[chunks_]
                        ELSE chunks_
    /\ UNCHANGED <<next, allocatedEnd, aborted, gcVars, lifeVars>>
    /\ PeakObserved

\* Mutant of Drop: the chunk of the dropped slot is moved to the head of
\* the chunk list.
DropPromotesChunk(h) ==
    /\ MutatorRuns
    /\ LET f == freeThis(h)
           c == IF valid(h) THEN chunkForSlot(slot_[h]) ELSE chunks_
           before == {p \in Chunks : next[p] = c}
       IN /\ phv' = f.phv
          /\ freeList' = f.freeList
          /\ slot_' = [slot_ EXCEPT ![h] = f.slot_]
          /\ chunks_' = c
          /\ next' = IF c = chunks_
                     THEN next
                     ELSE [p \in Chunks |->
                              IF p \in before THEN next[c]
                              ELSE IF p = c THEN chunks_
                              ELSE next[p]]
    /\ UNCHANGED <<allocatedEnd, aborted, gcVars, lifeVars>>
    /\ PeakObserved

\* Mutant of Drop: the chunk of the dropped slot is handed back to the
\* platform.
DropReleasesChunk(h) ==
    /\ MutatorRuns
    /\ LET f == freeThis(h)
       IN /\ phv' = f.phv
          /\ freeList' = f.freeList
          /\ slot_' = [slot_ EXCEPT ![h] = f.slot_]
          /\ released' = IF valid(h)
                         THEN Append(released, chunkForSlot(slot_[h]))
                         ELSE released
    /\ UNCHANGED <<chunks_, next, allocatedEnd, aborted, gcVars, lifetime>>
    /\ PeakObserved

\* ~DynHandle(): freeThis().
Drop(h) ==
    /\ MutatorRuns
    /\ LET f == freeThis(h)
       IN /\ phv' = f.phv
          /\ freeList' = f.freeList
          /\ slot_' = [slot_ EXCEPT ![h] = f.slot_]
    /\ UNCHANGED <<chunks_, next, allocatedEnd, aborted, gcVars, lifeVars>>
    /\ PeakObserved

\* MutableHandle<T>(dh).set(value) on a valid DynHandle.
set(h, value) ==
    /\ MutatorRuns
    /\ valid(h)
    /\ phv' = [phv EXCEPT ![slot_[h]] = encode(value)]
    /\ UNCHANGED <<chunks_, next, freeList, allocatedEnd, slot_, aborted,
                   gcVars, lifeVars, peak>>

\* ----------------------------------------------------------- markRoots

\* The chunk list from `cursor` on, as a sequence.
RECURSIVE ChunkList(_)
ChunkList(cursor) ==
    IF cursor = NULL THEN <<>> ELSE <<cursor>> \o ChunkList(next[cursor])

\* Mutant of MarkChunk: the whole slot array is offered, not only the
\* slots below allocatedEnd.
RECURSIVE MarkChunkWholeArray(_, _, _)
MarkChunkWholeArray(chunk, i, max) ==
    IF i < kSlotsPerChunk
    THEN <<[slot |-> SlotAddr(chunk, i), phv |-> phv[SlotAddr(chunk, i)]]>>
             \o MarkChunkWholeArray(chunk, i + 1, max)
    ELSE <<>>

\* What markRoots offers from one chunk: slots[i].phv for i in [0, max).
RECURSIVE MarkChunk(_, _, _)
MarkChunk(chunk, i, max) ==
    IF i < max
    THEN <<[slot |-> SlotAddr(chunk, i), phv |-> phv[SlotAddr(chunk, i)]]>>
             \o MarkChunk(chunk, i + 1, max)
    ELSE <<>>

\* Mutant of markRootsFrom: only the first chunk is marked.
markRootsFromOneChunk(cursor) ==
    IF cursor = NULL
    THEN <<>>
    ELSE MarkChunk(cursor, 0, allocatedEnd[cursor])

\* What markRoots offers to the acceptor, in order.
RECURSIVE markRootsFrom(_)
markRootsFrom(cursor) ==
    IF cursor = NULL
    THEN <<>>
    ELSE MarkChunk(cursor, 0, allocatedEnd[cursor])
             \o markRootsFrom(next[cursor])

\* acceptor.accept(hv) of an acceptor that records what it is offered: the
\* PHV it leaves behind.
accept(hv) == hv

\* The slots' PHVs after the acceptor has been offered `offered`.
Accepted(offered) ==
    LET seen == {offered[k].slot : k \in 1..Len(offered)}
    IN [s \in DOMAIN phv |-> IF s \in seen THEN accept(phv[s]) ELSE phv[s]]

\* Mutant of markRoots: the walk advances chunks_ itself instead of a local
\* cursor, and leaves it NULL.
markRootsAdvancesHead ==
    /\ ~aborted
    /\ lifetime = "alive"
    /\ gcPhase # "remarked"
    /\ gcPhase' = IF gcPhase = "mutator" THEN "marked" ELSE "remarked"
    /\ accepted' = markRootsFrom(chunks_)
    /\ phv' = Accepted(markRootsFrom(chunks_))
    /\ chunks_' = NULL
    /\ UNCHANGED <<next, freeList, allocatedEnd, slot_, aborted, lifeVars, peak>>

\* allocator.markRoots(gc, acceptor), called by a collection, once or twice
\* in a row: the mutator is stopped from the first call until the
\* collection ends.
markRoots ==
    /\ ~aborted
    /\ lifetime = "alive"
    /\ gcPhase # "remarked"
    /\ gcPhase' = IF gcPhase = "mutator" THEN "marked" ELSE "remarked"
    /\ accepted' = markRootsFrom(chunks_)
    /\ phv' = Accepted(markRootsFrom(chunks_))
    /\ UNCHANGED <<chunks_, next, freeList, allocatedEnd, slot_, aborted,
                   lifeVars, peak>>

\* The collection ends, the acceptor is gone and the mutator resumes.
CollectionEnds ==
    /\ ~aborted
    /\ gcPhase # "mutator"
    /\ gcPhase' = "mutator"
    /\ accepted' = <<>>
    /\ UNCHANGED <<allocVars, slot_, aborted, lifeVars, peak>>

\* -------------------------------------------------- ~DynHandleAllocator

\* ~DynHandleAllocator() is entered.  The allocator is destroyed by its
\* owner after the DynHandles: the test fixture holds the allocator as a
\* member and the DynHandles are locals of the test bodies, gone before
\* the fixture is.  The destructor itself checks nothing.
DestructorEnters ==
    /\ MutatorRuns
    /\ \A h \in DOMAIN slot_ : ~valid(h)
    /\ lifetime' = "destroying"
    /\ UNCHANGED <<allocVars, slot_, aborted, gcVars, released, peak>>

\* oscompat::free_aligned(cursor): the block goes back to the platform and
\* its header and slots are no longer memory of the process.
free_aligned(cursor) ==
    [next |-> Without(next, {cursor}),
     freeList |-> Without(freeList, {cursor}),
     allocatedEnd |-> Without(allocatedEnd, {cursor}),
     phv |-> Without(phv, SlotAddrsOf(cursor)),
     released |-> Append(released, cursor)]

\* Mutant of DestructorLoop: the rest of the list is dropped with the head
\* chunk.
DestructorLoopHeadOnly ==
    /\ lifetime = "destroying"
    /\ chunks_ # NULL
    /\ LET cursor == chunks_
           f == free_aligned(cursor)
       IN /\ chunks_' = NULL
          /\ next' = f.next
          /\ freeList' = f.freeList
          /\ allocatedEnd' = f.allocatedEnd
          /\ phv' = f.phv
          /\ released' = f.released
    /\ UNCHANGED <<slot_, aborted, gcVars, lifetime, peak>>

\* One iteration of the destructor's loop: the head chunk is unlinked,
\* destroyed and released.
DestructorLoop ==
    /\ lifetime = "destroying"
    /\ chunks_ # NULL
    /\ LET cursor == chunks_
           f == free_aligned(cursor)
       IN /\ chunks_' = next[cursor]
          /\ next' = f.next
          /\ freeList' = f.freeList
          /\ allocatedEnd' = f.allocatedEnd
          /\ phv' = f.phv
          /\ released' = f.released
    /\ UNCHANGED <<slot_, aborted, gcVars, lifetime, peak>>

\* The loop ends when chunks_ is null, and the destructor returns.
DestructorReturns ==
    /\ lifetime = "destroying"
    /\ chunks_ = NULL
    /\ lifetime' = "destroyed"
    /\ UNCHANGED <<allocVars, slot_, aborted, gcVars, released, peak>>

\* ------------------------------------------------------- specification

Next ==
    \/ \E h \in Handles, value \in Values : allocate(h, value)
    \/ \E h \in Handles, rhs \in Handles : MoveConstruct(h, rhs)
    \/ \E h \in Handles, rhs \in Handles : MoveAssign(h, rhs)
    \/ \E h \in Handles : Drop(h)
    \/ \E h \in Handles, value \in Values : set(h, value)
    \/ markRoots
    \/ CollectionEnds

Spec == Init /\ [][Next]_vars

\* The allocator from construction to destruction.  The thread that runs
\* the destructor keeps running it.
NextLifetime ==
    \/ Next
    \/ DestructorEnters
    \/ DestructorLoop
    \/ DestructorReturns

SpecLifetime ==
    /\ Init
    /\ [][NextLifetime]_vars
    /\ WF_vars(DestructorLoop)
    /\ WF_vars(DestructorReturns)

\* ------------------------------------------- the unit test's scenario

\* DynHandleTests.BasicTest in small: the allocator is filled over several
\* chunks, with values false, true, false, ..., then handles are dropped
\* and further allocations are made among the drops, and in the end the
\* allocator is destroyed.  A DynHandle object is allocated into once.

\* One chunk more than the handles of Spec can fill.
ScanChunks == PoolSize + 1

ScanAddrs == {k * kChunkAlignment : k \in 1..ScanChunks}

\* The handles of the first loop fill every chunk; the second loop has
\* a chunk's worth of further handles.
FillHandles == 1..(ScanChunks * kSlotsPerChunk)

RefillHandles ==
    (ScanChunks * kSlotsPerChunk + 1)..((ScanChunks + 1) * kSlotsPerChunk)

InitScan ==
    /\ chunks_ = NULL
    /\ next = <<>>
    /\ freeList = <<>>
    /\ allocatedEnd = <<>>
    /\ phv = <<>>
    /\ slot_ = [h \in FillHandles \cup RefillHandles |-> NULL]
    /\ aborted = FALSE
    /\ gcPhase = "mutator"
    /\ accepted = <<>>
    /\ lifetime = "alive"
    /\ released = <<>>
    /\ peak = 0

\* The slots handed out by bump allocation so far.
RECURSIVE BumpedFrom(_)
BumpedFrom(cursor) ==
    IF cursor = NULL
    THEN 0
    ELSE allocatedEnd[cursor] + BumpedFrom(next[cursor])

\* allocator.allocate(HermesValue::encodeBoolValue(i & 1)) for handle i,
\* on a platform with ScanChunks blocks.
ScanAllocate(h) ==
    /\ MutatorRuns
    /\ ~valid(h)
    /\ IF NeedsNewChunk
       THEN \E allocation \in {NULL} \cup (ScanAddrs \ Chunks),
               garbage \in GarbageFills :
                AllocateWith(h, h % 2 = 1, allocation, garbage)
       ELSE AllocateWith(h, h % 2 = 1, NULL, NoGarbage)

\* The first loop: dynhandles.push_back(allocator.allocate(...)).
Fill(h) ==
    /\ h = BumpedFrom(chunks_) + 1
    /\ \A o \in FillHandles : valid(o) <=> o < h
    /\ ScanAllocate(h)

\* Handles of the first loop are erased once it is over.
Erase(h) ==
    /\ BumpedFrom(chunks_) = ScanChunks * kSlotsPerChunk
    /\ valid(h)
    /\ Drop(h)

\* The second loop, among the erasures.
Refill(h) ==
    /\ BumpedFrom(chunks_) = ScanChunks * kSlotsPerChunk
    /\ \A o \in RefillHandles : o < h => valid(o)
    /\ ScanAllocate(h)

NextScan ==
    \/ \E h \in FillHandles : Fill(h)
    \/ \E h \in FillHandles : Erase(h)
    \/ \E h \in RefillHandles : Refill(h)
    \/ DestructorEnters
    \/ DestructorLoop
    \/ DestructorReturns

SpecScan ==
    /\ InitScan
    /\ [][NextScan]_vars
    /\ WF_vars(DestructorLoop)
    /\ WF_vars(DestructorReturns)

\* ------------------------------------------------- observing the state

\* The free list of a chunk, followed from `freed` through the native
\* pointers in the PHVs: the slots visited, at most `fuel` of them.  The
\* walk stops at NULL and at an address that is no slot.
RECURSIVE FreeListFrom(_, _)
FreeListFrom(freed, fuel) ==
    IF freed = NULL \/ fuel = 0
    THEN <<>>
    ELSE IF freed \notin DOMAIN phv
    THEN <<freed>>
    ELSE <<freed>> \o FreeListFrom(getNativePointer(phv[freed]), fuel - 1)

\* One more than any acyclic free list of a chunk can hold.
WalkFuel == kSlotsPerChunk + 1

FreeListOf(chunk) == FreeListFrom(freeList[chunk], WalkFuel)

FreeSetOf(chunk) ==
    {FreeListOf(chunk)[k] : k \in 1..Len(FreeListOf(chunk))}

\* The chunks of the list, head first.
ListedChunks == ChunkList(chunks_)

ListedSet == {ListedChunks[k] : k \in 1..Len(ListedChunks)}

\* DynHandleTests::countAllocations: over the chunks of the list,
\* allocatedEnd minus the length of the free list.
RECURSIVE countAllocationsFrom(_)
countAllocationsFrom(cursor) ==
    IF cursor = NULL
    THEN 0
    ELSE (allocatedEnd[cursor] - Len(FreeListOf(cursor)))
             + countAllocationsFrom(next[cursor])

countAllocations == countAllocationsFrom(chunks_)

ValidHandles == {h \in Handles : valid(h)}

\* A slot is live: its chunk is in the list, its index is below the chunk's
\* allocatedEnd and it is not on the chunk's free list.
IsLive(slot) ==
    /\ slot \in DOMAIN phv
    /\ chunkForSlot(slot) \in ListedSet
    /\ SlotIndex(slot) < allocatedEnd[chunkForSlot(slot)]
    /\ slot \notin FreeSetOf(chunkForSlot(slot))

\* --------------------------------------------------------------- claims

\* C1: the number of live slots, computed as the sum over the chunks of the
\* list of allocatedEnd minus the length of the free list, equals the number
\* of valid DynHandles, after any sequence of allocate, drop, move
\* construction and move assignment.
C1_LiveCountEqualsValidHandles ==
    countAllocations = Cardinality(ValidHandles)

\* C1 witness: allocations and at least one drop have happened: some handle
\* is valid and some chunk has a non-empty free list.
C1_Witness ==
    /\ Cardinality(ValidHandles) >= 2
    /\ \E c \in Chunks : freeList[c] # NULL
    /\ countAllocations = Cardinality(ValidHandles)

\* C2: every DynHandle is invalid or refers to a live slot, and no two valid
\* DynHandles refer to the same slot.
C2_HandlesOwnDistinctLiveSlots ==
    /\ \A h \in Handles : valid(h) => IsLive(slot_[h])
    /\ \A h1, h2 \in Handles :
           (valid(h1) /\ valid(h2) /\ h1 # h2) => slot_[h1] # slot_[h2]

\* C2 witness: a slot has been freed and handed out again while other
\* handles were valid: all handles are valid, in two chunks.
C2_Witness ==
    /\ ValidHandles = Handles
    /\ Cardinality({chunkForSlot(slot_[h]) : h \in Handles}) >= 2
    /\ \A h \in Handles : IsLive(slot_[h])

\* C3: in every chunk of the list the free list, followed from freeList
\* through the native pointers in the PHVs, visits only slots of that chunk
\* with index below allocatedEnd, visits none twice, ends in NULL, and so is
\* no longer than allocatedEnd.
C3_FreeListWellFormed ==
    \A c \in ListedSet :
        LET fl == FreeListOf(c) IN
        /\ \A k \in 1..Len(fl) :
               /\ fl[k] \in DOMAIN phv
               /\ contains(c, fl[k])
               /\ chunkForSlot(fl[k]) = c
               /\ SlotIndex(fl[k]) < allocatedEnd[c]
               /\ isNativePointer(phv[fl[k]])
        /\ \A j, k \in 1..Len(fl) : j # k => fl[j] # fl[k]
        /\ Len(fl) <= allocatedEnd[c]
        /\ Len(fl) < WalkFuel

\* C3 witness: a chunk whose free list holds two slots, while another chunk
\* exists.
C3_Witness ==
    /\ Cardinality(Chunks) >= 2
    /\ \E c \in ListedSet : Len(FreeListOf(c)) >= 2

\* The step is the call allocate(v) whose result is constructed as `h`: it
\* makes the invalid `h` valid, or aborts.
AllocateCalled(h, v) ==
    /\ slot_[h] = NULL
    /\ slot_'[h] # NULL \/ aborted'
    /\ allocate(h, v)

\* C4: the DynHandle returned by allocate(v) is valid and get() on it
\* returns v; after a write of v2 through a valid DynHandle, get() on it
\* returns v2.
C4_GetReturnsWhatWasStored ==
    [][\A h \in Handles, v \in Values :
           /\ (AllocateCalled(h, v) /\ ~aborted')
                  => (slot_'[h] # NULL /\ decode(phv'[slot_'[h]]) = v)
           /\ set(h, v)
                  => (slot_'[h] # NULL /\ decode(phv'[slot_'[h]]) = v)]_vars

\* C4 witness: two valid handles read different values, one of them from a
\* slot that was freed and handed out again.
C4_Witness ==
    \E h1, h2 \in Handles :
        /\ valid(h1) /\ valid(h2)
        /\ get(h1) = TRUE /\ get(h2) = FALSE
        /\ \E c \in Chunks : freeList[c] # NULL

\* The step has DynHandle `h` as an operand: it is written through, dropped,
\* or one side of a move.
Operand(h) ==
    \/ \E v \in Values : set(h, v)
    \/ Drop(h)
    \/ \E o \in Handles : MoveConstruct(o, h) \/ MoveAssign(o, h) \/ MoveAssign(h, o)

\* C5: the value read through a valid DynHandle changes only when that
\* DynHandle is written: a step that allocates, that drops, moves or writes
\* other DynHandles, that creates or promotes a chunk, or that marks roots
\* with a recording acceptor leaves the handle's slot and the slot's PHV as
\* they were.
C5_OtherOperationsLeaveCellAlone ==
    [][\A h \in Handles :
           \/ ~valid(h)
           \/ /\ slot_'[h] = slot_[h]
              /\ slot_[h] \in DOMAIN phv'
              /\ phv'[slot_[h]] = phv[slot_[h]]
           \/ Operand(h)]_vars

\* C5 witness: handles in two chunks hold different values next to a freed
\* slot: allocations, a chunk creation and a drop have happened around them.
C5_Witness ==
    \E h1, h2 \in Handles :
        /\ valid(h1) /\ valid(h2)
        /\ chunkForSlot(slot_[h1]) # chunkForSlot(slot_[h2])
        /\ get(h1) # get(h2)
        /\ \E c \in Chunks : freeList[c] # NULL

\* The slots markRoots has to offer: index below allocatedEnd, in a chunk of
\* the list.
SlotsToMark ==
    {SlotAddr(c, i) : c \in ListedSet, i \in 0..(kSlotsPerChunk - 1)}
        \cap {s \in DOMAIN phv : SlotIndex(s) < allocatedEnd[chunkForSlot(s)]}

\* The place of a chunk in the list.
ListPos(c) == CHOOSE k \in 1..Len(ListedChunks) : ListedChunks[k] = c

Offers == 1..Len(accepted)

\* C6: one call of markRoots offers exactly the PHVs of the slots with
\* index in [0, allocatedEnd) of every chunk of the list, each once, chunk
\* by chunk in list order and by ascending index within a chunk; so the PHV
\* of every valid DynHandle is offered exactly once and no slot at or above
\* allocatedEnd is offered.
C6_MarkRootsOffersAllocatedRange ==
    gcPhase # "mutator" =>
        /\ {accepted[k].slot : k \in Offers} = SlotsToMark
        /\ Len(accepted) = Cardinality(SlotsToMark)
        /\ \A k \in Offers : accepted[k].phv = phv[accepted[k].slot]
        /\ \A j, k \in Offers :
               j < k =>
                   LET cj == chunkForSlot(accepted[j].slot)
                       ck == chunkForSlot(accepted[k].slot)
                   IN \/ ListPos(cj) < ListPos(ck)
                      \/ cj = ck /\ SlotIndex(accepted[j].slot)
                                        < SlotIndex(accepted[k].slot)
        /\ \A h \in ValidHandles :
               Cardinality({k \in Offers : accepted[k].slot = slot_[h]}) = 1
        /\ \A k \in Offers :
               SlotIndex(accepted[k].slot)
                   < allocatedEnd[chunkForSlot(accepted[k].slot)]

\* C6 witness: markRoots has run over two chunks, one of them with slots
\* above allocatedEnd, with live and free slots among those offered.
C6_Witness ==
    /\ gcPhase # "mutator"
    /\ Len(ListedChunks) = 2
    /\ \E c \in ListedSet : allocatedEnd[c] < kSlotsPerChunk
    /\ \E c \in ListedSet : freeList[c] # NULL
    /\ ValidHandles # {}
    /\ Len(accepted) = Cardinality(SlotsToMark)

\* How often the cell hv is among the offered PHVs, and among the PHVs of
\* the valid DynHandles.
TimesOffered(hv) == Cardinality({k \in Offers : accepted[k].phv = hv})

TimesHeld(hv) == Cardinality({h \in ValidHandles : getHermesValue(h) = hv})

\* C7: the callers storing no native-pointer-tagged value, at every
\* markRoots call the multiset of offered PHVs that are not
\* native-pointer-tagged equals the multiset of the values held by valid
\* DynHandles, and every other offered PHV is a native-pointer-tagged link
\* of a free list.
C7_OfferedValuesAreTheHeldValues ==
    (gcPhase # "mutator" /\ \A h \in ValidHandles : ~isNativePointer(getHermesValue(h)))
        => /\ \A hv \in {accepted[k].phv : k \in Offers}
                            \cup {getHermesValue(h) : h \in ValidHandles} :
                  ~isNativePointer(hv) => TimesOffered(hv) = TimesHeld(hv)
           /\ \A k \in Offers :
                  isNativePointer(accepted[k].phv)
                      => accepted[k].slot
                             \in FreeSetOf(chunkForSlot(accepted[k].slot))

\* C7 witness: markRoots has offered the same value twice, held by two
\* handles, another value once, and a free-list link.
C7_Witness ==
    /\ gcPhase # "mutator"
    /\ TimesHeld(encode(TRUE)) = 2
    /\ TimesOffered(encode(TRUE)) = 2
    /\ TimesOffered(encode(FALSE)) = 1
    /\ \E k \in Offers : isNativePointer(accepted[k].phv)

\* C8: markRoots with an acceptor that only records changes nothing in the
\* allocator (the list, every allocatedEnd and free list, every PHV, every
\* DynHandle), and a second call with no mutation in between offers the
\* same multiset of PHVs.
C8_MarkRootsChangesNothing ==
    [][(gcPhase' # "mutator" /\ gcPhase' # gcPhase) =>
           /\ UNCHANGED <<chunks_, next, freeList, allocatedEnd, phv, slot_>>
           /\ gcPhase = "marked" =>
                  /\ Len(accepted') = Len(accepted)
                  /\ \A hv \in {accepted[k].phv : k \in Offers} :
                         Cardinality({k \in 1..Len(accepted') :
                                          accepted'[k].phv = hv})
                             = TimesOffered(hv)]_vars

\* C8 witness: markRoots has been called twice in a row over live slots
\* holding both values and a free slot.
C8_Witness ==
    /\ gcPhase = "remarked"
    /\ TimesOffered(encode(TRUE)) >= 1
    /\ TimesOffered(encode(FALSE)) >= 1
    /\ \E k \in Offers : isNativePointer(accepted[k].phv)

\* The chunk is full: its free list is empty and no slot is untouched.
IsFull(c) == freeList[c] = NULL /\ allocatedEnd[c] = kSlotsPerChunk

\* The step is a call of allocate.
AllocateStep == \E h \in Handles, v \in Values : AllocateCalled(h, v)

\* C9: allocate creates a chunk only when every chunk of the list is full;
\* when some chunk has a free-list entry or an untouched slot, allocate
\* takes its slot from a chunk that exists and the set of chunks is
\* unchanged; in particular the allocate after every handle was dropped
\* creates no chunk.
C9_NewChunkOnlyWhenAllFull ==
    [][/\ Chunks' # Chunks => \A c \in ListedSet : IsFull(c)
       /\ \A h \in Handles, v \in Values :
              (AllocateCalled(h, v) /\ \E c \in ListedSet : ~IsFull(c))
                  => /\ Chunks' = Chunks
                     /\ ~aborted'
                     /\ chunkForSlot(slot_'[h]) \in Chunks
       /\ (AllocateStep /\ Chunks # {} /\ ValidHandles = {})
              => Chunks' = Chunks]_vars

\* C9 witness: a second chunk was created, and then every handle was
\* dropped: both chunks have free-list entries and no handle is valid.
C9_Witness ==
    /\ Cardinality(Chunks) = 2
    /\ ValidHandles = {}
    /\ \A c \in ListedSet : freeList[c] # NULL

RECURSIVE SumAllocatedEndFrom(_)
SumAllocatedEndFrom(cursor) ==
    IF cursor = NULL
    THEN 0
    ELSE allocatedEnd[cursor] + SumAllocatedEndFrom(next[cursor])

\* No slot has been freed and not handed out again.
NoFreeSlot == \A c \in ListedSet : freeList[c] = NULL

\* C10: with no drops, after exactly kSlotsPerChunk allocations on an empty
\* allocator there is one chunk, with allocatedEnd = kSlotsPerChunk and an
\* empty free list; one more allocate makes it two chunks with the new chunk
\* at the head: its next is the old chunk, its allocatedEnd is 1 and its
\* free list is empty.
C10_ChunkBoundary ==
    /\ [](NoFreeSlot /\ SumAllocatedEndFrom(chunks_) = kSlotsPerChunk
              => /\ Cardinality(Chunks) = 1
                 /\ Len(ListedChunks) = 1
                 /\ allocatedEnd[chunks_] = kSlotsPerChunk
                 /\ freeList[chunks_] = NULL)
    /\ [][(/\ AllocateStep
           /\ ~aborted'
           /\ Len(ListedChunks) = 1
           /\ IsFull(chunks_))
              => /\ Cardinality(Chunks') = 2
                 /\ chunks_' \notin Chunks
                 /\ next'[chunks_'] = chunks_
                 /\ next'[chunks_] = NULL
                 /\ allocatedEnd'[chunks_'] = 1
                 /\ freeList'[chunks_'] = NULL
                 /\ allocatedEnd'[chunks_] = kSlotsPerChunk
                 /\ freeList'[chunks_] = NULL]_vars

\* C10 witness: kSlotsPerChunk + 1 handles are valid, no slot is free, and
\* there are two chunks, the head with one slot handed out.
C10_Witness ==
    /\ Cardinality(ValidHandles) = kSlotsPerChunk + 1
    /\ NoFreeSlot
    /\ Len(ListedChunks) = 2
    /\ allocatedEnd[chunks_] = 1
    /\ IsFull(next[chunks_])

\* The slots held by DynHandles.
Held == {slot_[h] : h \in DOMAIN slot_} \ {NULL}

\* C11: the free list of a chunk is a stack of its freed slots.  In every
\* step and for every chunk, either the chunk hands out no slot and its free
\* list and allocatedEnd stay as they are; or a slot just given up by its
\* DynHandle is pushed in front of the free list; or the free list is not
\* empty and its head, the slot freed last and not handed out since, is the
\* slot handed out, freeList becomes the link stored in that slot and
\* allocatedEnd stays; or the free list is empty and the slot at allocatedEnd
\* is handed out.  An untouched slot is so handed out only when the free
\* list is empty.
C11_FreeListIsAStack ==
    [][/\ \A c \in Chunks :
              LET before == FreeListOf(c)
                  after == FreeListOf(c)'
                  issued == {s \in Held' \ Held : chunkForSlot(s) = c}
              IN \/ /\ UNCHANGED <<freeList, allocatedEnd, phv>>
                    /\ Held' \subseteq Held
                 \/ /\ issued = {}
                    /\ after = before
                    /\ allocatedEnd'[c] = allocatedEnd[c]
                 \/ /\ issued = {}
                    /\ \E s \in Held \ Held' : after = <<s>> \o before
                    /\ allocatedEnd'[c] = allocatedEnd[c]
                 \/ /\ before # <<>>
                    /\ issued = {Head(before)}
                    /\ after = Tail(before)
                    /\ freeList'[c] = getNativePointer(phv[Head(before)])
                    /\ allocatedEnd'[c] = allocatedEnd[c]
                 \/ /\ before = <<>>
                    /\ issued = {SlotAddr(c, allocatedEnd[c])}
                    /\ after = <<>>
                    /\ allocatedEnd'[c] = allocatedEnd[c] + 1
       /\ \A c \in Chunks' \ Chunks :
              /\ FreeListOf(c)' = <<>>
              /\ allocatedEnd'[c] = 1
              /\ Held' \ Held = {SlotAddr(c, 0)}]_vars

\* C11 witness: the head chunk has had all its slots handed out and two of
\* them freed, the lower one first, so that the next two allocations have
\* to return the higher and then the lower; a handle holds a slot of
\* another chunk.
C11_Witness ==
    /\ chunks_ # NULL
    /\ allocatedEnd[chunks_] = kSlotsPerChunk
    /\ Len(FreeListOf(chunks_)) >= 2
    /\ FreeListOf(chunks_)[1] > FreeListOf(chunks_)[2]
    /\ \E s \in Held : chunkForSlot(s) # chunks_

\* The chunks of the list that have room, in list order.
WithRoom == SelectSeq(ListedChunks, LAMBDA c : ~IsFull(c))

\* The list without chunk c.
ListWithout(c) == SelectSeq(ListedChunks, LAMBDA d : d # c)

\* C12: when the head chunk is full and another chunk of the list has room,
\* allocate returns a slot of the first chunk in list order that has room
\* (the head of its free list, or else its slot at allocatedEnd) and that
\* chunk becomes the head of the list, the other chunks keeping their
\* order; no chunk is created.  So with every chunk full but for one freed
\* slot in the tail chunk, allocate returns that slot and the tail chunk
\* moves to the head.
C12_SlowPathTakesFirstChunkWithRoom ==
    [][(/\ Held' \ Held # {}
        /\ chunks_ # NULL
        /\ IsFull(chunks_)
        /\ WithRoom # <<>>)
           => LET c == Head(WithRoom) IN
              /\ Held' \ Held =
                     {IF freeList[c] # NULL
                      THEN freeList[c]
                      ELSE SlotAddr(c, allocatedEnd[c])}
              /\ chunks_' = c
              /\ ChunkList(chunks_)' = <<c>> \o ListWithout(c)
              /\ Chunks' = Chunks
              /\ ~aborted']_vars

\* C12 witness: the list has three chunks, the first two full and the last
\* with room, and a handle of the second loop holds a slot of the head
\* chunk: the slow path has served an allocation, and its next one has to
\* come from the tail chunk.
C12_Witness ==
    /\ Len(ListedChunks) = 3
    /\ IsFull(ListedChunks[1])
    /\ IsFull(ListedChunks[2])
    /\ ~IsFull(ListedChunks[3])
    /\ \E h \in RefillHandles :
           valid(h) /\ chunkForSlot(slot_[h]) = chunks_

\* The slot src refers to has gone over to dst, as it is: src is invalid,
\* dst refers to what src referred to, and the slot, if there is one, holds
\* the same PHV.
Transferred(dst, src) ==
    /\ slot_'[src] = NULL
    /\ slot_'[dst] = slot_[src]
    /\ \A s \in {slot_[src]} \ {NULL} :
           s \in DOMAIN phv' /\ phv'[s] = phv[s]

\* The slot `old` that dst held has been pushed onto the free list of its
\* chunk and nothing else in the allocator has changed; slot s is not on
\* the free list of its chunk, and the number of live slots is one less.
Pushed(old, s) ==
    \A c \in {chunkForSlot(old)} :
        /\ FreeListOf(c)' = <<old>> \o FreeListOf(c)
        /\ phv' = [phv EXCEPT ![old] = encodeNativePointer(freeList[c])]
        /\ freeList' = [freeList EXCEPT ![c] = old]
        /\ UNCHANGED <<chunks_, next, allocatedEnd>>
        /\ \A cs \in {chunkForSlot(s)} \ {NULL} :
               \A k \in 1..Len(FreeListOf(cs)') : FreeListOf(cs)'[k] # s
        /\ countAllocations' = countAllocations - 1

\* C13: a move construction of dst from a distinct src, and a move
\* assignment to dst from a distinct src, leave src invalid and dst
\* referring to the slot src referred to (invalid if src was), that slot's
\* PHV being unchanged.  The construction, and the assignment to an invalid
\* dst, change nothing in the allocator, so that every slot is live or not
\* as it was and the number of live slots is the same.  The assignment to a
\* valid dst pushes the slot dst held onto the free list of that slot's
\* chunk and changes nothing else in the allocator; the transferred slot is
\* not on a free list and the number of live slots is one less.  (Only the
\* pairs are looked at outside which the step changes no slot_.)
C13_MoveTransfersTheSlot ==
    [][slot_' # slot_ =>
           \A moved \in {{h \in Handles : slot_'[h] # slot_[h]}} :
           \A dst, src \in Handles :
               (dst # src /\ moved \subseteq {dst, src}) =>
                   /\ MoveConstruct(dst, src) =>
                          Transferred(dst, src) /\ UNCHANGED allocVars
                   /\ MoveAssign(dst, src) =>
                          /\ Transferred(dst, src)
                          /\ IF valid(dst)
                             THEN Pushed(slot_[dst], slot_[src])
                             ELSE UNCHANGED allocVars]_vars

\* C13 witness: a valid dst in the head chunk, a valid src in another chunk
\* and an invalid third handle, with one slot on the free list of dst's
\* chunk: both moves from src can be made, onto the valid and onto the
\* invalid handle, after a slot was freed.
C13_Witness ==
    \E dst, src, other \in Handles :
        /\ valid(dst) /\ valid(src) /\ ~valid(other)
        /\ chunkForSlot(slot_[dst]) = chunks_
        /\ chunkForSlot(slot_[src]) # chunks_
        /\ Len(FreeListOf(chunks_)) = 1

\* C14: a drop of a valid DynHandle whose slot s lies in chunk c makes s the
\* head of c's free list, s's PHV encoding as a native pointer the head c's
\* free list had, the rest of the list being the list as it was; the
\* allocatedEnd of every chunk, the free list of every other chunk, the PHV
\* of every other slot, the set of chunks and the order of the chunk list
\* are unchanged, and so is every other DynHandle.  A drop of an invalid
\* DynHandle changes nothing.
C14_DropPushesAndNothingElse ==
    [][\A h \in Handles :
           Drop(h) =>
               IF valid(h)
               THEN \A s \in {slot_[h]} : \A c \in {chunkForSlot(s)} :
                        /\ freeList'[c] = s
                        /\ phv'[s] = encodeNativePointer(freeList[c])
                        /\ FreeListOf(c)' = <<s>> \o FreeListOf(c)
                        /\ allocatedEnd' = allocatedEnd
                        /\ DOMAIN freeList' = DOMAIN freeList
                        /\ \A d \in Chunks \ {c} :
                               freeList'[d] = freeList[d]
                        /\ DOMAIN phv' = DOMAIN phv
                        /\ \A t \in (DOMAIN phv) \ {s} : phv'[t] = phv[t]
                        /\ chunks_' = chunks_
                        /\ next' = next
                        /\ ListedChunks' = ListedChunks
                        /\ \A g \in Handles \ {h} : slot_'[g] = slot_[g]
                        /\ UNCHANGED <<aborted, gcVars, lifeVars>>
               ELSE UNCHANGED vars]_vars

\* C14 witness: a chunk that is not the head of the chunk list has two
\* dropped slots on its free list, the second dropped linked to the first,
\* while another DynHandle is still valid.
C14_Witness ==
    \E c \in Chunks :
        /\ c # chunks_
        /\ Len(FreeListOf(c)) = 2
        /\ phv[freeList[c]] = encodeNativePointer(FreeListOf(c)[2])
        /\ \E h \in Handles : valid(h)

\* C15: an allocate during which oscompat::allocate_aligned is called and
\* fails is fatal: the process is aborted, the allocator is left as it was
\* and no DynHandle is constructed.  The process is aborted by no other
\* step: whenever it becomes aborted, every chunk of the list was full (or
\* there was none), the allocator is as it was and every DynHandle refers
\* to what it referred to.
C15_AllocationFailureIsFatal ==
    [][/\ (NeedsNewChunk /\ MutatorRuns) =>
              \A h \in Handles, value \in Values :
                  (~valid(h) /\ AllocateWith(h, value, NULL, NoGarbage)) =>
                      /\ aborted'
                      /\ UNCHANGED <<allocVars, slot_>>
       /\ (aborted' /\ ~aborted) =>
              /\ \A c \in ListedSet : IsFull(c)
              /\ Chunks = ListedSet
              /\ UNCHANGED <<allocVars, slot_>>]_vars

\* C15 witness: the process was aborted with a full chunk in the list and
\* a DynHandle that was being allocated still invalid.
C15_Witness ==
    /\ aborted
    /\ chunks_ # NULL
    /\ \A c \in ListedSet : IsFull(c)
    /\ \E h \in Handles : ~valid(h)
    /\ \E h \in Handles : valid(h)

\* Slot `slot` of an existing chunk has never been handed out: it lies at
\* or above the high-water mark of its chunk.  A slot below it is live or
\* free.
Untouched(slot) ==
    SlotIndex(slot) >= allocatedEnd[chunkForSlot(slot)]

\* C16: the allocatedEnd of every chunk is in 0..kSlotsPerChunk, before and
\* after every step; no step removes a chunk or lowers its allocatedEnd, so
\* a slot that is live or free is not untouched after any step.  (A step
\* that changes neither the allocator nor a DynHandle has nothing to show.)
C16_HighWaterMarkNeverRetreats ==
    [][\/ UNCHANGED <<allocVars, slot_>>
       \/ /\ \A c \in Chunks : allocatedEnd[c] \in 0..kSlotsPerChunk
          /\ \A c \in Chunks' : allocatedEnd'[c] \in 0..kSlotsPerChunk
          /\ \A c \in Chunks :
                 /\ c \in Chunks'
                 /\ allocatedEnd'[c] >= allocatedEnd[c]
                 /\ \A s \in SlotAddrsOf(c) :
                        ~Untouched(s) => ~Untouched(s)']_vars

\* C16 witness: a slot handed out by the bump pointer is free and the
\* chunk's allocatedEnd is at kSlotsPerChunk, while another chunk still
\* has an untouched slot.
C16_Witness ==
    \E c, d \in Chunks :
        /\ allocatedEnd[c] = kSlotsPerChunk
        /\ freeList[c] # NULL
        /\ allocatedEnd[d] < kSlotsPerChunk
        /\ allocatedEnd[d] > 0

\* The blocks handed back to oscompat::free_aligned so far.
ReleasedSet == {released[k] : k \in 1..Len(released)}

NoDuplicates(s) == \A i, j \in 1..Len(s) : s[i] = s[j] => i = j

\* C18: the destructor, once entered, returns.  It starts with nothing
\* released; each of its steps keeps the sequence of the blocks released so
\* far followed by the chunk list, which has no duplicates, so the blocks
\* are released once each in the order of the list from its head; the
\* chunks that exist are those of the list throughout; and when it has
\* returned the list is empty and no chunk exists, every block obtained
\* from the platform having been released.
C18_DestructorReleasesTheList ==
    /\ [](lifetime = "destroying" => <>(lifetime = "destroyed"))
    /\ [][/\ (lifetime = "alive" /\ lifetime' = "destroying") =>
                 released' = <<>>
          /\ lifetime = "destroying" =>
                 /\ released' \o ListedChunks' = released \o ListedChunks
                 /\ NoDuplicates(released \o ListedChunks)
                 /\ Chunks' = ListedSet'
                 /\ Len(released') <= Len(released) + 1]_vars
    /\ [](lifetime = "destroyed" =>
              /\ chunks_ = NULL
              /\ Chunks = {}
              /\ DOMAIN phv = {}
              /\ NoDuplicates(released))

\* C18 witness: the destructor has returned after releasing the blocks of
\* two chunks, and the list is empty.
C18_Witness ==
    /\ lifetime = "destroyed"
    /\ Len(released) = PoolSize
    /\ chunks_ = NULL
    /\ Chunks = {}

\* C19: for every chunk address C that is a multiple of kChunkByteSize and
\* every address S of its slot array, of kSlotsPerChunk =
\* (kChunkByteSize - sizeof(Chunk)) / sizeof(Slot) slots rounded down,
\* S - S mod kChunkByteSize is C and S mod kChunkByteSize is at least the
\* size of the header and less than kChunkByteSize; and in every state
\* chunkForSlot of the slot of a valid DynHandle is a chunk of the chunk
\* list that contains the slot.
C19_SlotAddressFindsItsChunk ==
    /\ kSlotsPerChunk * SizeofSlot <= kChunkByteSize - SizeofChunk
    /\ (kSlotsPerChunk + 1) * SizeofSlot > kChunkByteSize - SizeofChunk
    /\ \A C \in ChunkAddrs \cup ScanAddrs :
           /\ C % kChunkByteSize = 0
           /\ \A i \in 0..(kSlotsPerChunk - 1) :
                  \A S \in {SlotAddr(C, i)} :
                      /\ S - (S % kChunkByteSize) = C
                      /\ S % kChunkByteSize >= SizeofChunk
                      /\ S % kChunkByteSize < kChunkByteSize
                      /\ chunkForSlot(S) = C
                      /\ contains(C, S)
    /\ \A h \in Handles :
           valid(h) =>
               /\ chunkForSlot(slot_[h]) \in ListedSet
               /\ contains(chunkForSlot(slot_[h]), slot_[h])

\* C19 witness: DynHandles hold the last slot of the head chunk and the
\* last slot of a chunk further down the list.
C19_Witness ==
    \E g, h \in Handles :
        /\ valid(g)
        /\ valid(h)
        /\ chunkForSlot(slot_[g]) = chunks_
        /\ chunkForSlot(slot_[h]) # chunks_
        /\ SlotIndex(slot_[g]) = kSlotsPerChunk - 1
        /\ SlotIndex(slot_[h]) = kSlotsPerChunk - 1

\* C20: an allocation made while the head chunk has room (a free list or
\* allocatedEnd < kSlotsPerChunk) returns the slot that tryAllocate takes
\* from the head chunk; the free list and allocatedEnd of every other chunk,
\* the chunks and the order of the chunk list are unchanged, no block is
\* asked of the platform and the process is not aborted.
C20_FastPathServesFromTheHead ==
    [][(chunks_ # NULL /\ ~IsFull(chunks_) /\ Held' \ Held # {}) =>
           /\ Held' \ Held =
                  {tryAllocate(chunks_, freeList[chunks_],
                               allocatedEnd[chunks_]).result}
           /\ \A s \in Held' \ Held :
                  chunkForSlot(s) = chunks_ /\ contains(chunks_, s)
           /\ Chunks' = Chunks
           /\ \A c \in Chunks \ {chunks_} :
                  /\ freeList'[c] = freeList[c]
                  /\ allocatedEnd'[c] = allocatedEnd[c]
                  /\ FreeListOf(c)' = FreeListOf(c)
           /\ chunks_' = chunks_
           /\ next' = next
           /\ ListedChunks' = ListedChunks
           /\ ~aborted']_vars

\* C20 witness: a DynHandle holds a slot of the head chunk, which has room
\* left, and so has the chunk after it.
C20_Witness ==
    /\ Len(ListedChunks) = 2
    /\ ~IsFull(ListedChunks[1])
    /\ ~IsFull(ListedChunks[2])
    /\ allocatedEnd[ListedChunks[2]] = kSlotsPerChunk
    /\ \E h \in Handles : valid(h) /\ chunkForSlot(slot_[h]) = chunks_

\* C21: while the allocator is in use, after every allocation the chunk of
\* the slot it returned is the head of the chunk list.  The head of the
\* list changes by no step but an allocation made when the head chunk is
\* full or there is none: a drop, a move, a write or a collection leaves
\* chunks_ and next as they are, and so does an allocation while the head
\* chunk has room, whose slot is taken from the head chunk.  So a chunk that
\* the slow path has moved to the head serves every allocation that follows
\* for as long as it has room.
C21_AllocationsHitTheHead ==
    [][lifetime = "alive" /\ lifetime' = "alive" =>
           \A issued \in {Held' \ Held} :
               /\ \A s \in issued : chunkForSlot(s) = chunks_'
               /\ (chunks_ # NULL /\ ~IsFull(chunks_)) =>
                      /\ chunks_' = chunks_
                      /\ next' = next
                      /\ \A s \in issued :
                             chunkForSlot(s) = chunks_ /\ ~aborted'
               /\ issued = {} => (chunks_' = chunks_ /\ next' = next)]_vars

\* C21 witness: the chunk created first, which still holds the slot of the
\* first DynHandle, has been moved by the slow path to the head of a list
\* of three chunks, and an allocation of the second loop has been served
\* from it.
C21_Witness ==
    /\ Len(ListedChunks) = 3
    /\ valid(1)
    /\ chunkForSlot(slot_[1]) = chunks_
    /\ \E h \in RefillHandles :
           valid(h) /\ chunkForSlot(slot_[h]) = chunks_

\* The walk along `next` from `cursor` comes to NULL within `fuel` steps,
\* over chunks that exist.
RECURSIVE EndsWithin(_, _)
EndsWithin(cursor, fuel) ==
    \/ cursor = NULL
    \/ /\ fuel > 0
       /\ cursor \in Chunks
       /\ EndsWithin(next[cursor], fuel - 1)

\* The chunk list is finite and null-terminated, with no more steps than
\* there are chunks.  No chunk is met twice: the walk from a chunk met
\* twice would come back to it and never end.
WellFormedList == EndsWithin(chunks_, Cardinality(Chunks))

\* C22: after every step the chunk list is, as the empty list at the start
\* is, a finite null-terminated list of existing chunks without
\* repetition.  A step of
\* the allocator in use that makes an existing chunk the new head (the
\* splice of the slow path) keeps the set of the chunks of the list and the
\* set of existing chunks; afterwards the promoted chunk is first and the
\* other chunks follow in the order they had.
C22_SplicePreservesTheList ==
    [][/\ WellFormedList'
       /\ (/\ lifetime = "alive"
           /\ chunks_' # chunks_
           /\ chunks_' \in Chunks) =>
              /\ Chunks' = Chunks
              /\ ListedSet' = ListedSet
              /\ Len(ListedChunks') = Len(ListedChunks)
              /\ \A c \in {chunks_'} :
                     ListedChunks' = <<c>> \o ListWithout(c)]_vars

\* C22 witness: of three chunks, the one created second, which was second
\* in the list, has been made the first; the chunk created last follows
\* it and the chunk created first is still the tail.
C22_Witness ==
    /\ Len(ListedChunks) = 3
    /\ \E a \in 1..kSlotsPerChunk,
          b \in (kSlotsPerChunk + 1)..(2 * kSlotsPerChunk),
          c \in (2 * kSlotsPerChunk + 1)..(3 * kSlotsPerChunk) :
           /\ valid(a)
           /\ valid(b)
           /\ valid(c)
           /\ ListedChunks = <<chunkForSlot(slot_[b]),
                               chunkForSlot(slot_[c]),
                               chunkForSlot(slot_[a])>>

\* C23: a step taken while the allocator is alive (an allocation, a drop, a
\* move, a write, a collection) releases no block and removes no chunk:
\* the chunks of the list afterwards include those before, and so do the
\* chunks that exist.  If the list has grown, it has grown by one chunk,
\* which did not exist before, and the step is an allocation made when
\* every chunk of the list was full.  A step that removes a chunk from the
\* list is a step of the destructor.
C23_ChunksOnlyComeNeverGo ==
    [][/\ lifetime = "alive" =>
              /\ released' = released
              /\ Chunks \subseteq Chunks'
              /\ ListedSet \subseteq ListedSet'
              /\ ListedSet' # ListedSet =>
                     /\ Cardinality(ListedSet' \ ListedSet) = 1
                     /\ ListedSet' \ ListedSet = Chunks' \ Chunks
                     /\ Held' \ Held # {}
                     /\ \A c \in ListedSet : IsFull(c)
       /\ ~(ListedSet \subseteq ListedSet') => lifetime = "destroying"]_vars

\* C23 witness: every DynHandle has been dropped and the allocator, still
\* alive, keeps its two chunks in the list.
C23_Witness ==
    /\ lifetime = "alive"
    /\ Cardinality(ListedSet) = PoolSize
    /\ Chunks = ListedSet
    /\ \A h \in Handles : ~valid(h)

\* C24: in every state of the allocator in use the number of chunks, which
\* are those of the chunk list, is peak divided by kSlotsPerChunk and
\* rounded up, peak being the largest number of DynHandles that have been
\* valid at once (no chunk while it is 0).
C24_ChunksAsThePeakRequires ==
    /\ Cardinality(Chunks) =
           (peak + kSlotsPerChunk - 1) \div kSlotsPerChunk
    /\ Len(ListedChunks) = Cardinality(Chunks)
    /\ peak >= Cardinality(ValidHandles)
    /\ peak = 0 => chunks_ = NULL

\* C24 witness: one DynHandle more than a chunk has slots have been valid
\* at once, fewer are valid now, and each of the two chunks has a free
\* slot.
C24_Witness ==
    /\ peak = kSlotsPerChunk + 1
    /\ Cardinality(ValidHandles) < peak
    /\ Cardinality(Chunks) = 2
    /\ \A c \in Chunks : freeList[c] # NULL

\* The chunks on which the loop of allocateSlotSlowPath, started at
\* `cursor`, calls tryAllocate, in the order of the calls.
RECURSIVE ScanVisits(_)
ScanVisits(cursor) ==
    IF cursor = NULL
    THEN <<>>
    ELSE IF tryAllocate(cursor, freeList[cursor],
                        allocatedEnd[cursor]).result # NULL
    THEN <<cursor>>
    ELSE <<cursor>> \o ScanVisits(next[cursor])

\* C25: in every state the chunk list ends, the scan of the slow path
\* calls tryAllocate on no chunk twice and on chunks of the list only, and
\* an allocateSlot made by the mutator, the platform giving an aligned
\* block not in use when one is asked for, is not fatal and returns a slot, never null, that
\* lies in the head chunk of the list afterwards; the slot of a new chunk
\* is its slot 0, allocatedEnd becoming 1.
C25_AllocateReturnsASlot ==
    /\ WellFormedList
    /\ NoDuplicates(ScanVisits(chunks_))
    /\ \A k \in 1..Len(ScanVisits(chunks_)) :
           ScanVisits(chunks_)[k] = ListedChunks[k]
    /\ MutatorRuns =>
           \A allocation \in (IF NeedsNewChunk
                               THEN ScanAddrs \ Chunks
                               ELSE {NULL}),
              garbage \in GarbageFills :
               \A a \in {allocateSlot(allocation, garbage)} :
                   /\ ~a.fatal
                   /\ a.result # NULL
                   /\ a.result \in DOMAIN a.phv
                   /\ chunkForSlot(a.result) = a.chunks_
                   /\ NeedsNewChunk =>
                          /\ a.result = SlotAddr(allocation, 0)
                          /\ a.allocatedEnd[allocation] = 1
                          /\ a.freeList[allocation] = NULL

\* C25 witness: the scan of the slow path has gone through two full
\* chunks, the platform has a block to give, and a DynHandle is there to
\* take the slot.
C25_Witness ==
    /\ MutatorRuns
    /\ Len(ScanVisits(chunks_)) = 2
    /\ NeedsNewChunk
    /\ ScanAddrs \ Chunks # {}
    /\ \E h \in FillHandles : ~valid(h)

\* C26: a move assignment of a valid DynHandle to itself leaves it invalid
\* and every other DynHandle as it was; its slot has been pushed once onto
\* the free list of its chunk, nothing else in the allocator has changed
\* and the number of live slots is one less.  Afterwards freeThis() of that
\* DynHandle frees nothing, the number of live slots is the number of valid
\* DynHandles, and the free list of the chunk visits no slot twice and
\* ends.
C26_SelfMoveAssignFreesOnce ==
    [][\A h \in Handles :
           (valid(h) /\ MoveAssign(h, h)) =>
               /\ slot_' = [slot_ EXCEPT ![h] = NULL]
               /\ Pushed(slot_[h], NULL)
               /\ freeThis(h)' =
                      [phv |-> phv', freeList |-> freeList', slot_ |-> NULL]
               /\ countAllocations' = Cardinality(ValidHandles')
               /\ \A old \in {slot_[h]} : \A c \in {chunkForSlot(old)} :
                      \A fl \in {FreeListOf(c)'} :
                          /\ NoDuplicates(fl)
                          /\ Len(fl) < WalkFuel
                          /\ Len(fl) <= allocatedEnd'[c]
                          /\ Cardinality({k \in 1..Len(fl) :
                                             fl[k] = old}) = 1
      ]_vars

\* C26 witness: a DynHandle is invalid, its slot is the only one on the
\* free list of a chunk that is not the head, and the other DynHandles are
\* valid.
C26_Witness ==
    \E h \in Handles :
        /\ ValidHandles = Handles \ {h}
        /\ \E c \in Chunks :
               /\ c # chunks_
               /\ Len(FreeListOf(c)) = 1
               /\ allocatedEnd[c] = kSlotsPerChunk
        /\ freeList[chunks_] = NULL

====
